---- MODULE Spec2Model ----
(***************************************************************************)
(* Segmented file system client (seg-fs): the packet decoders of           *)
(* packets.rs and the reassembly engine of client.rs.                      *)
(*                                                                         *)
(* Four specifications share the module:                                   *)
(*   SpecCodec  the two TryFrom<Vec<u8>> decoders applied to raw buffers   *)
(*   SpecFile   one File, header and data packets reported in any order    *)
(*   Spec       a Client driven by recv_packet and finalize_files          *)
(*   SpecMain   the receive loop and finalize of main.rs, fed the packets  *)
(*              of well-formed files, with fairness                        *)
(***************************************************************************)
EXTENDS Integers, Sequences, FiniteSets, TLC

VARIABLES
    buf,                \* SpecCodec: the Vec<u8> handed to try_from
    decoder,            \* SpecCodec: which decoder has been applied
    parsed,             \* SpecCodec: the Result it returned
    file,               \* SpecFile: the File under test
    reported,           \* SpecFile: the packets reported to it so far
    in_progress_files,  \* Client.in_progress_files : HashMap<FileId, File>
    final_files,        \* Client.final_files : Vec<File>
    phase,              \* "running" | "panicked" | "finalized"
    last_data,          \* the datagram read by the latest recv_packet
    result,             \* outcome of the latest Client call
    sink,               \* what finalize_files has created and written
    recv_count,         \* number of recv_packet calls made
    stream,             \* SpecMain: the datagrams the server sends
    delivered           \* SpecMain: those that have arrived at least once

codecVars  == <<buf, decoder, parsed>>
fileVars   == <<file, reported>>
clientVars == <<in_progress_files, final_files, phase, last_data, result,
                sink, recv_count>>
mainVars   == <<stream, delivered>>
vars == <<buf, decoder, parsed, file, reported, in_progress_files,
          final_files, phase, last_data, result, sink, recv_count,
          stream, delivered>>

----------------------------------------------------------------------------
(* Bounds *)

MaxBufLen  == 5     \* longest buffer given to the decoders in SpecCodec
MaxNumber  == 3     \* largest packet_number reported in SpecFile
MaxRecv    == 4     \* recv_packet calls in Spec
MaxIoCalls == 3     \* the I/O call of finalize_files that may fail
MaxLast    == 1     \* largest last packet number of a file in SpecMain

----------------------------------------------------------------------------
(* Option<T>, and small helpers *)

None == <<>>

Some(x) == <<x>>

IsSome(o) == o # <<>>

Unwrap(o) == o[1]

\* data[from..] of a Vec<u8>, with Rust's 0-based index
SliceFrom(data, from) == SubSeq(data, from + 1, Len(data))

\* data[i] with Rust's 0-based index
At(data, i) == data[i + 1]

RECURSIVE BitAnd(_, _)
\* a & b on unsigned integers
BitAnd(a, b) ==
    IF a = 0 \/ b = 0 THEN 0
    ELSE (a % 2) * (b % 2) + 2 * BitAnd(a \div 2, b \div 2)

\* mutant: the two bytes taken in little-endian order
FromLeBytes(hi, lo) == lo * 256 + hi

\* u16::from_be_bytes([hi, lo])
FromBeBytes(hi, lo) == hi * 256 + lo

InRange(b, lo, hi) == lo <= b /\ b <= hi

IsCont(s, i) == i <= Len(s) /\ InRange(s[i], 128, 191)

RECURSIVE Utf8From(_, _)
\* std::str::from_utf8(..).is_ok(), scanning from the 1-based position i
Utf8From(s, i) ==
    IF i > Len(s) THEN TRUE
    ELSE LET b == s[i] IN
         IF b <= 127 THEN Utf8From(s, i + 1)
         ELSE IF InRange(b, 194, 223)
              THEN IsCont(s, i + 1) /\ Utf8From(s, i + 2)
         ELSE IF b = 224
              THEN i + 1 <= Len(s) /\ InRange(s[i + 1], 160, 191)
                   /\ IsCont(s, i + 2) /\ Utf8From(s, i + 3)
         ELSE IF InRange(b, 225, 236) \/ InRange(b, 238, 239)
              THEN IsCont(s, i + 1) /\ IsCont(s, i + 2) /\ Utf8From(s, i + 3)
         ELSE IF b = 237
              THEN i + 1 <= Len(s) /\ InRange(s[i + 1], 128, 159)
                   /\ IsCont(s, i + 2) /\ Utf8From(s, i + 3)
         ELSE IF b = 240
              THEN i + 1 <= Len(s) /\ InRange(s[i + 1], 144, 191)
                   /\ IsCont(s, i + 2) /\ IsCont(s, i + 3)
                   /\ Utf8From(s, i + 4)
         ELSE IF InRange(b, 241, 243)
              THEN IsCont(s, i + 1) /\ IsCont(s, i + 2) /\ IsCont(s, i + 3)
                   /\ Utf8From(s, i + 4)
         ELSE IF b = 244
              THEN i + 1 <= Len(s) /\ InRange(s[i + 1], 128, 143)
                   /\ IsCont(s, i + 2) /\ IsCont(s, i + 3)
                   /\ Utf8From(s, i + 4)
         ELSE FALSE

from_utf8_ok(s) == Utf8From(s, 1)

----------------------------------------------------------------------------
(* packets.rs: the decoders.  A Result is Ok(packet), Err(message) or, when *)
(* an index is out of bounds, a panic.                                      *)

Ok(p) == [kind |-> "Ok", packet |-> p]

Err(e) == [kind |-> "Err", err |-> e]

Panic == [kind |-> "Panic"]

HeaderPacket(file_id, name) ==
    [variant |-> "Header", file_id |-> file_id, name |-> name]

DataPacket(is_last, file_id, packet_number, data) ==
    [variant |-> "Data", is_last |-> is_last, file_id |-> file_id,
     packet_number |-> packet_number, data |-> data]

\* mutant: the empty-name check dropped
HeaderPacket_try_from_empty_name(data) ==
    IF Len(data) < 2 THEN Err("header: length")
    ELSE IF BitAnd(At(data, 0), 1) > 0 THEN Err("header: is data packet")
    ELSE IF ~from_utf8_ok(SliceFrom(data, 2)) THEN Err("header: not utf8")
    ELSE Ok(HeaderPacket(At(data, 1), SliceFrom(data, 2)))

\* impl TryFrom<Vec<u8>> for HeaderPacket
HeaderPacket_try_from(data) ==
    IF Len(data) < 2 THEN Err("header: length")
    ELSE IF BitAnd(At(data, 0), 1) > 0 THEN Err("header: is data packet")
    ELSE IF Len(data) = 2 THEN Err("header: empty file name")
    ELSE IF ~from_utf8_ok(SliceFrom(data, 2)) THEN Err("header: not utf8")
    ELSE Ok(HeaderPacket(At(data, 1), SliceFrom(data, 2)))

\* the length below which DataPacket::try_from returns its length error
DataMinLen == 2

\* impl TryFrom<Vec<u8>> for DataPacket
DataPacket_try_from(data) ==
    IF Len(data) < DataMinLen THEN Err("data: length")
    ELSE IF BitAnd(At(data, 0), 1) = 0 THEN Err("data: is header packet")
    ELSE IF Len(data) < 4 THEN Panic       \* data[2] / data[3] out of bounds
    ELSE IF Len(data) = 4 THEN Err("data: empty data")
    ELSE Ok(DataPacket(BitAnd(At(data, 0), 2) > 0,
                       At(data, 1),
                       FromBeBytes(At(data, 2), At(data, 3)),
                       SliceFrom(data, 4)))

----------------------------------------------------------------------------
(* client.rs: File *)

\* File::new
File_new(file_id) ==
    [file_id |-> file_id, name |-> None, segments |-> <<>>,
     max_segments |-> None]

\* HashMap::insert
MapInsert(m, k, v) ==
    [x \in DOMAIN m \cup {k} |-> IF x = k THEN v ELSE m[x]]

\* HashMap::remove, for a set of keys
MapRemove(m, ks) == [x \in DOMAIN m \ ks |-> m[x]]

\* HashMap::len
MapLen(m) == Cardinality(DOMAIN m)

\* mutant: a header taken as the start of a new file
report_header_packet_new_file(f, p) ==
    [file_id |-> f.file_id, name |-> Some(p.name), segments |-> <<>>,
     max_segments |-> None]

\* File::report_header_packet
report_header_packet(f, p) == [f EXCEPT !.name = Some(p.name)]

\* mutant: max_segments set by every data packet, is_last or not
report_data_packet_any_last(f, p) ==
    [f EXCEPT !.segments = MapInsert(f.segments, p.packet_number, p.data),
              !.max_segments = Some(p.packet_number)]

\* File::report_data_packet
report_data_packet(f, p) ==
    [f EXCEPT !.segments = MapInsert(f.segments, p.packet_number, p.data),
              !.max_segments = IF p.is_last THEN Some(p.packet_number)
                               ELSE f.max_segments]

\* mutant: the segment count compared with max_segments, without the + 1
is_done_off_by_one(f) ==
    IF IsSome(f.max_segments)
    THEN IsSome(f.name) /\ MapLen(f.segments) = Unwrap(f.max_segments)
    ELSE FALSE

\* mutant: the name not looked at
is_done_without_name(f) ==
    IF IsSome(f.max_segments)
    THEN MapLen(f.segments) = Unwrap(f.max_segments) + 1
    ELSE FALSE

\* mutant: the two conditions joined by || instead of &&
is_done_name_or_count(f) ==
    IF IsSome(f.max_segments)
    THEN IsSome(f.name) \/ MapLen(f.segments) = Unwrap(f.max_segments) + 1
    ELSE FALSE

\* File::is_done
is_done(f) ==
    IF IsSome(f.max_segments)
    THEN IsSome(f.name) /\ MapLen(f.segments) = Unwrap(f.max_segments) + 1
    ELSE FALSE

----------------------------------------------------------------------------
(* client.rs: Client *)

\* Client::get_mut_file_id: the map after the lookup has inserted a new File
\* for an absent id
get_mut_file_id(files, file_id) ==
    IF file_id \notin DOMAIN files
    THEN MapInsert(files, file_id, File_new(file_id))
    ELSE files

\* mutant: every in-progress file pushed, the is_done test forgotten
DoneIds_every_file(files) == DOMAIN files

\* ids pushed to transition_files by the first loop of move_complete_files
DoneIds(files) == {id \in DOMAIN files : is_done(files[id])}

\* the orders in which HashMap::values_mut may visit a set of keys
Orderings(S) ==
    {o \in [1..Cardinality(S) -> S] :
        \A i, j \in 1..Cardinality(S) : i # j => o[i] # o[j]}

\* mutant: the done files pushed to final_files but not removed
move_complete_files_no_remove(files, finals, order) ==
    [in_progress |-> files,
     final |-> finals \o [i \in DOMAIN order |-> files[order[i]]]]

\* mutant: the done files inserted at the front of final_files
move_complete_files_push_front(files, finals, order) ==
    [in_progress |-> MapRemove(files, {order[i] : i \in DOMAIN order}),
     final |-> [i \in DOMAIN order |-> files[order[i]]] \o finals]

\* Client::move_complete_files, for one visiting order of the done files
move_complete_files(files, finals, order) ==
    [in_progress |-> MapRemove(files, {order[i] : i \in DOMAIN order}),
     final |-> finals \o [i \in DOMAIN order |-> files[order[i]]]]

\* the decode step of Client::recv_packet
recv_decode(data) ==
    IF Len(data) = 0 THEN Err("data packet has zero length")
    ELSE IF BitAnd(At(data, 0), 1) > 0 THEN DataPacket_try_from(data)
    ELSE HeaderPacket_try_from(data)

\* the report step of Client::recv_packet
recv_report(files, packet) ==
    LET with == get_mut_file_id(files, packet.file_id)
        f == with[packet.file_id]
    IN  [with EXCEPT ![packet.file_id] =
            IF packet.variant = "Data" THEN report_data_packet(f, packet)
            ELSE report_header_packet(f, packet)]

\* Sink entry made by std::fs::File::create
Created(name) == [name |-> name, bytes |-> <<>>]

RECURSIVE write_segments_exclusive(_, _, _, _, _)
\* mutant: the loop over 0..last_packet, without the last packet
write_segments_exclusive(f, id, out, calls, io_fail) ==
    IF id >= Unwrap(f.max_segments)
    THEN [res |-> Ok(<<>>), sink |-> out, calls |-> calls]
    ELSE IF id \in DOMAIN f.segments
    THEN IF calls + 1 = io_fail
         THEN [res |-> Err("unable to write to file"), sink |-> out,
               calls |-> calls + 1]
         ELSE write_segments_exclusive(f, id + 1,
                [out EXCEPT ![Len(out)].bytes = @ \o f.segments[id]],
                calls + 1, io_fail)
    ELSE [res |-> Err("bad data at packet id"), sink |-> out,
          calls |-> calls]

RECURSIVE write_segments_skip_missing(_, _, _, _, _)
\* mutant: a missing segment skipped instead of reported
write_segments_skip_missing(f, id, out, calls, io_fail) ==
    IF id > Unwrap(f.max_segments)
    THEN [res |-> Ok(<<>>), sink |-> out, calls |-> calls]
    ELSE IF id \in DOMAIN f.segments
    THEN IF calls + 1 = io_fail
         THEN [res |-> Err("unable to write to file"), sink |-> out,
               calls |-> calls + 1]
         ELSE write_segments_skip_missing(f, id + 1,
                [out EXCEPT ![Len(out)].bytes = @ \o f.segments[id]],
                calls + 1, io_fail)
    ELSE write_segments_skip_missing(f, id + 1, out, calls, io_fail)

RECURSIVE write_segments(_, _, _, _, _)
\* the inner loop of Client::finalize_files from packet id on; calls counts
\* the I/O calls made so far and the call numbered io_fail fails (0: none)
write_segments(f, id, out, calls, io_fail) ==
    IF id > Unwrap(f.max_segments)
    THEN [res |-> Ok(<<>>), sink |-> out, calls |-> calls]
    ELSE IF id \in DOMAIN f.segments
    THEN IF calls + 1 = io_fail
         THEN [res |-> Err("unable to write to file"), sink |-> out,
               calls |-> calls + 1]
         ELSE write_segments(f, id + 1,
                [out EXCEPT ![Len(out)].bytes = @ \o f.segments[id]],
                calls + 1, io_fail)
    ELSE [res |-> Err("bad data at packet id"), sink |-> out,
          calls |-> calls]

RECURSIVE finalize_from(_, _, _, _, _)
\* the outer loop of Client::finalize_files from the file at index i on
finalize_from(finals, i, out, calls, io_fail) ==
    IF i > Len(finals) THEN [res |-> Ok(<<>>), sink |-> out]
    ELSE LET f == finals[i] IN
         IF IsSome(f.name)
         THEN IF calls + 1 = io_fail
              THEN [res |-> Err("unable to create file"), sink |-> out]
              ELSE LET w == IF IsSome(f.max_segments)
                            THEN write_segments(f, 0,
                                    Append(out, Created(Unwrap(f.name))),
                                    calls + 1, io_fail)
                            ELSE [res |-> Ok(<<>>),
                                  sink |-> Append(out,
                                              Created(Unwrap(f.name))),
                                  calls |-> calls + 1]
                   IN  IF w.res.kind = "Ok"
                       THEN finalize_from(finals, i + 1, w.sink, w.calls,
                                          io_fail)
                       ELSE [res |-> w.res, sink |-> w.sink]
         ELSE [res |-> Err("no name"), sink |-> out]

\* Client::finalize_files
finalize_files(finals, io_fail) == finalize_from(finals, 1, <<>>, 0, io_fail)

----------------------------------------------------------------------------
(* SpecCodec: every buffer of bounded length, each decoder applied to it *)

CodecBytes == {0, 1, 3, 6, 65, 169, 195, 255}

Buffers == UNION {[1..n -> CodecBytes] : n \in 0..MaxBufLen}

NoResult == [kind |-> "None"]

IdleFile == [file_id |-> 0, name |-> None, segments |-> <<>>,
             max_segments |-> None]

FileIdle ==
    /\ file = IdleFile
    /\ reported = {}

ClientIdle ==
    /\ in_progress_files = <<>>
    /\ final_files = <<>>
    /\ phase = "running"
    /\ last_data = <<>>
    /\ result = NoResult
    /\ sink = <<>>
    /\ recv_count = 0

CodecIdle ==
    /\ buf = <<>>
    /\ decoder = "none"
    /\ parsed = NoResult

MainIdle ==
    /\ stream = {}
    /\ delivered = {}

InitCodec ==
    /\ buf \in Buffers
    /\ decoder = "none"
    /\ parsed = NoResult
    /\ FileIdle
    /\ ClientIdle
    /\ MainIdle

DecodeHeader ==
    /\ decoder = "none"
    /\ decoder' = "header"
    /\ parsed' = HeaderPacket_try_from(buf)
    /\ UNCHANGED <<buf, fileVars, clientVars, mainVars>>

DecodeData ==
    /\ decoder = "none"
    /\ decoder' = "data"
    /\ parsed' = DataPacket_try_from(buf)
    /\ UNCHANGED <<buf, fileVars, clientVars, mainVars>>

NextCodec == DecodeHeader \/ DecodeData

SpecCodec == InitCodec /\ [][NextCodec]_vars

----------------------------------------------------------------------------
(* SpecFile: one File, any header and data packets reported in any order *)

FilePackets ==
    {HeaderPacket(5, <<116>>)}
    \cup {DataPacket(l, 5, n, <<104 + n>>) :
            l \in BOOLEAN, n \in 0..MaxNumber}

InitFile ==
    /\ file = File_new(5)
    /\ reported = {}
    /\ CodecIdle
    /\ ClientIdle
    /\ MainIdle

ReportHeader(p) ==
    /\ p.variant = "Header"
    /\ file' = report_header_packet(file, p)
    /\ reported' = reported \cup {p}
    /\ UNCHANGED <<codecVars, clientVars, mainVars>>

ReportData(p) ==
    /\ p.variant = "Data"
    /\ file' = report_data_packet(file, p)
    /\ reported' = reported \cup {p}
    /\ UNCHANGED <<codecVars, clientVars, mainVars>>

NextFile ==
    \/ \E p \in FilePackets : ReportHeader(p)
    \/ \E p \in FilePackets : ReportData(p)

SpecFile == InitFile /\ [][NextFile]_vars

----------------------------------------------------------------------------
(* Spec: a Client receiving datagrams, then finalized *)

FileIds == {5, 42}

Names == {<<116>>}

Numbers == {<<0, 0>>, <<0, 1>>, <<0, 2>>}

Payloads == {<<104>>, <<105>>}

\* datagrams that recv_packet cannot decode
MalformedDatagrams ==
    {<<>>, <<0, 5, 255>>, <<1, 5>>, <<1, 42, 0, 0>>}

HeaderDatagrams == {<<0, id>> \o n : id \in FileIds, n \in Names}

DataDatagrams ==
    {<<s, id>> \o n \o p :
        s \in {1, 3}, id \in FileIds, n \in Numbers, p \in Payloads}

Datagrams == MalformedDatagrams \cup HeaderDatagrams \cup DataDatagrams

Init ==
    /\ in_progress_files = <<>>
    /\ final_files = <<>>
    /\ phase = "running"
    /\ last_data = <<>>
    /\ result = NoResult
    /\ sink = <<>>
    /\ recv_count = 0
    /\ CodecIdle
    /\ FileIdle
    /\ MainIdle

\* Client::recv_packet when UdpSocket::recv_from fails
RecvSocketError ==
    /\ phase = "running"
    /\ recv_count < MaxRecv
    /\ recv_count' = recv_count + 1
    /\ result' = Err("unable to recieve data over socket")
    /\ UNCHANGED <<in_progress_files, final_files, phase, last_data, sink,
                   codecVars, fileVars, mainVars>>

\* Client::recv_packet on the datagram data: an empty or undecodable datagram
\* returns its error (or panics) before any File is looked up; a decoded
\* packet is reported and the done files are moved
RecvPacket(data) ==
    /\ phase = "running"
    /\ recv_count < MaxRecv
    /\ recv_count' = recv_count + 1
    /\ last_data' = data
    /\ LET decoded == recv_decode(data) IN
       IF decoded.kind = "Ok"
       THEN LET files == recv_report(in_progress_files, decoded.packet)
            IN  /\ \E order \in Orderings(DoneIds(files)) :
                     LET moved == move_complete_files(files, final_files,
                                                      order)
                     IN  /\ in_progress_files' = moved.in_progress
                         /\ final_files' = moved.final
                /\ result' = Ok(<<>>)
                /\ UNCHANGED phase
       ELSE /\ result' = decoded
            /\ phase' = IF decoded.kind = "Panic" THEN "panicked" ELSE phase
            /\ UNCHANGED <<in_progress_files, final_files>>
    /\ UNCHANGED <<sink, codecVars, fileVars, mainVars>>

\* Client::finalize_files, which consumes the Client
FinalizeFiles(io_fail) ==
    /\ phase = "running"
    /\ LET fin == finalize_files(final_files, io_fail)
       IN  /\ result' = fin.res
           /\ sink' = fin.sink
    /\ phase' = "finalized"
    /\ UNCHANGED <<in_progress_files, final_files, last_data, recv_count,
                   codecVars, fileVars, mainVars>>

Next ==
    \/ RecvSocketError
    \/ \E data \in Datagrams : RecvPacket(data)
    \/ \E io_fail \in 0..MaxIoCalls : FinalizeFiles(io_fail)

Spec == Init /\ [][Next]_vars

----------------------------------------------------------------------------
(* Properties *)

FinalFiles == {final_files[i] : i \in DOMAIN final_files}

\* every sequence number 0..=max_segments is a key of the segments of f
AllPresent(f) ==
    \A k \in 0..Unwrap(f.max_segments) : k \in DOMAIN f.segments

NoKeyAboveMax(f) ==
    \A k \in DOMAIN f.segments : k <= Unwrap(f.max_segments)

\* C1 as stated: every file in final_files (every done file) holds every
\* sequence number 0..=max_segments, whatever packets were routed to it.
C1_DoneFileHasEverySegment == \A f \in FinalFiles : AllPresent(f)

\* C1 amended: a file in final_files holds exactly max_segments + 1 distinct
\* packet numbers, max_segments among them, and holds every number
\* 0..=max_segments when none of its packet numbers exceeds max_segments.
C1_DoneFileCountsSegments ==
    \A f \in FinalFiles :
        /\ IsSome(f.max_segments)
        /\ Cardinality(DOMAIN f.segments) = Unwrap(f.max_segments) + 1
        /\ Unwrap(f.max_segments) \in DOMAIN f.segments
        /\ NoKeyAboveMax(f) => AllPresent(f)

C1_Witness ==
    \E f \in FinalFiles :
        /\ Unwrap(f.max_segments) >= 1
        /\ NoKeyAboveMax(f)
        /\ AllPresent(f)

\* the packets of a well-formed file whose is_last packet is numbered n
WellFormedFile(n) ==
    {p \in FilePackets :
        \/ p.variant = "Header"
        \/ p.variant = "Data" /\ p.packet_number <= n
           /\ p.is_last = (p.packet_number = n)}

\* C2: when only packets of a well-formed file 0..=N have been reported, in
\* any order and any number of times, the file is done exactly when the
\* header and each of the N + 1 data packets have been reported.
C2_WellFormedDoneIffAllReported ==
    \A n \in 0..MaxNumber :
        reported \subseteq WellFormedFile(n)
            => (is_done(file) <=> reported = WellFormedFile(n))

C2_Witness ==
    /\ reported = WellFormedFile(2)
    /\ is_done(file)

ReportedData == {p \in reported : p.variant = "Data"}

\* C3: is_done is true exactly when a name is set, max_segments is set and
\* the number of distinct packet numbers stored equals max_segments + 1.
C3_IsDoneIffNameMaxAndCount ==
    is_done(file) <=>
        /\ file.name # None
        /\ file.max_segments # None
        /\ Cardinality({p.packet_number : p \in ReportedData})
             = file.max_segments[1] + 1

C3_Witness ==
    /\ is_done(file)
    /\ Cardinality(ReportedData) > Cardinality(DOMAIN file.segments)
    /\ ~AllPresent(file)

\* C4: after every recv_packet call no File left in in_progress_files is
\* done, and a File that leaves in_progress_files is done and has been
\* appended to final_files by the same call.
C4_DoneFilesMovedInSameCall ==
    [][/\ \A id \in DOMAIN in_progress_files' :
            ~is_done(in_progress_files'[id])
       /\ \A id \in DOMAIN in_progress_files :
            \/ id \in DOMAIN in_progress_files'
            \/ \E i \in (Len(final_files) + 1)..Len(final_files') :
                 /\ final_files'[i].file_id = id
                 /\ is_done(final_files'[i])
       /\ SubSeq(final_files', 1, Len(final_files)) = final_files]_vars

C4_Witness ==
    /\ final_files # <<>>
    /\ DOMAIN in_progress_files # {}
    /\ result.kind = "Ok"

RECURSIVE AscendingBytes(_, _)
\* the payloads of f numbered 0..k, concatenated in ascending order
AscendingBytes(f, k) ==
    IF k < 0 THEN <<>>
    ELSE AscendingBytes(f, k - 1) \o f.segments[k]

\* C5: when finalize_files succeeds, it has emitted for each file of
\* final_files, in order, its name and the payloads numbered 0..=max_segments
\* in ascending order, whatever order the packets arrived in.
C5_FinalizeEmitsAscending ==
    (phase = "finalized" /\ result.kind = "Ok") =>
        /\ Len(sink) = Len(final_files)
        /\ \A i \in DOMAIN final_files :
             /\ AllPresent(final_files[i])
             /\ sink[i].name = Unwrap(final_files[i].name)
             /\ sink[i].bytes =
                  AscendingBytes(final_files[i],
                                 Unwrap(final_files[i].max_segments))

\* finalized successfully with a two-segment file whose packet 0 arrived
\* after its packet 1
C5_Witness ==
    /\ phase = "finalized"
    /\ result.kind = "Ok"
    /\ Len(last_data) = 5
    /\ last_data[4] = 0
    /\ \E i \in DOMAIN final_files :
         /\ final_files[i].file_id = last_data[2]
         /\ Unwrap(final_files[i].max_segments) = 1
         /\ final_files[i].segments[0] # final_files[i].segments[1]
         /\ sink[i].bytes = final_files[i].segments[0]
                               \o final_files[i].segments[1]

\* C6: when a file of final_files lacks a segment for a sequence number in
\* 0..=max_segments, finalize_files returns an error.
C6_FinalizeRejectsMissingSegment ==
    (phase = "finalized" /\ \E f \in FinalFiles : ~AllPresent(f))
        => result.kind = "Err"

C6_Witness ==
    /\ phase = "finalized"
    /\ \E f \in FinalFiles : ~AllPresent(f)
    /\ result = Err("bad data at packet id")

\* C7: DataPacket::try_from returns an error value for every buffer shorter
\* than 4 bytes.
C7_ShortDataBufferIsErr ==
    (decoder = "data" /\ Len(buf) < 4) => parsed.kind = "Err"

\* C8: for a buffer [flags, file_id, hi, lo, payload...] with bit 0 of flags
\* set and a non-empty payload, DataPacket::try_from succeeds with is_last =
\* bit 1 of flags, that file_id, packet_number = hi * 256 + lo and the
\* payload; no other bit of flags matters.
C8_DataDecodeRoundTrips ==
    (decoder = "data" /\ Len(buf) >= 5 /\ buf[1] % 2 = 1) =>
        /\ parsed.kind = "Ok"
        /\ parsed.packet.is_last = ((buf[1] \div 2) % 2 = 1)
        /\ parsed.packet.file_id = buf[2]
        /\ parsed.packet.packet_number = buf[3] * 256 + buf[4]
        /\ parsed.packet.data = SubSeq(buf, 5, Len(buf))

C8_Witness ==
    /\ decoder = "data"
    /\ parsed.kind = "Ok"
    /\ buf[1] = 65
    /\ buf[3] > buf[4]
    /\ buf[4] > 0
    /\ ~parsed.packet.is_last

\* well-formed UTF-8 for text whose characters take one or two bytes (no byte
\* of CodecBytes starts a longer character)
IsShortUtf8(s) ==
    \A i \in DOMAIN s :
        \/ s[i] <= 127
        \/ s[i] \in 194..223 /\ i < Len(s) /\ s[i + 1] \in 128..191
        \/ s[i] \in 128..191 /\ i > 1 /\ s[i - 1] \in 194..223

\* C9: HeaderPacket::try_from succeeds exactly for buffers of at least 3
\* bytes with bit 0 of the status byte clear and valid UTF-8 from index 2 on,
\* yielding file_id = byte 1 and name = those bytes; otherwise it returns an
\* error.
C9_HeaderDecodeExactly ==
    decoder = "header" =>
        /\ parsed.kind \in {"Ok", "Err"}
        /\ parsed.kind = "Ok" <=>
              /\ Len(buf) >= 3
              /\ buf[1] % 2 = 0
              /\ IsShortUtf8(SubSeq(buf, 3, Len(buf)))
        /\ parsed.kind = "Ok" =>
              /\ parsed.packet.file_id = buf[2]
              /\ parsed.packet.name = SubSeq(buf, 3, Len(buf))

C9_Witness ==
    /\ decoder = "header"
    /\ parsed.kind = "Ok"
    /\ buf[1] = 6
    /\ parsed.packet.name = <<195, 169, 65>>

\* what recv_packet decodes: a header with a non-empty UTF-8 name, or a data
\* packet with a non-empty payload
Decodable(data) ==
    /\ Len(data) >= 1
    /\ \/ data[1] % 2 = 0 /\ Len(data) >= 3
          /\ IsShortUtf8(SubSeq(data, 3, Len(data)))
       \/ data[1] % 2 = 1 /\ Len(data) >= 5

\* C10: a recv_packet call whose datagram is empty or does not decode returns
\* an error and leaves in_progress_files and final_files as they were.
C10_MalformedDatagramIsErrAndNoChange ==
    [][(recv_count' = recv_count + 1 /\ ~Decodable(last_data')) =>
          /\ result'.kind = "Err"
          /\ in_progress_files' = in_progress_files
          /\ final_files' = final_files]_vars

----------------------------------------------------------------------------
(* Properties of single recv_packet calls *)

\* the fields of a decodable datagram, read from its bytes
DgIsData(d) == d[1] % 2 = 1

DgIsLast(d) == (d[1] \div 2) % 2 = 1

DgFileId(d) == d[2]

DgNumber(d) == d[3] * 256 + d[4]

DgPayload(d) == SubSeq(d, 5, Len(d))

DgName(d) == SubSeq(d, 3, Len(d))

\* this step is a recv_packet call that returned Ok; last_data' is its datagram
RoutedOk == recv_count' = recv_count + 1 /\ result'.kind = "Ok"

\* a File that no packet has been reported to
Untouched(id) ==
    [file_id |-> id, name |-> <<>>, segments |-> <<>>, max_segments |-> <<>>]

\* the File a packet for id is reported to: the one in progress, or a new one
Before(id) ==
    IF id \in DOMAIN in_progress_files THEN in_progress_files[id]
    ELSE Untouched(id)

\* that File after the call: still in progress, or the last of final_files
After(id) ==
    IF id \in DOMAIN in_progress_files' THEN in_progress_files'[id]
    ELSE final_files'[Len(final_files')]

\* C11: a File in final_files is never changed or removed by a later call,
\* and a packet whose FileId is in final_files and not in progress is reported
\* to a new, empty File in in_progress_files.
C11_FinalFilesFrozenAndIdStartsAnew ==
    [][/\ Len(final_files') >= Len(final_files)
       /\ \A i \in DOMAIN final_files : final_files'[i] = final_files[i]
       /\ (/\ RoutedOk
           /\ DgFileId(last_data') \notin DOMAIN in_progress_files
           /\ \E i \in DOMAIN final_files :
                final_files[i].file_id = DgFileId(last_data'))
          => /\ DgFileId(last_data') \in DOMAIN in_progress_files'
             /\ LET a == in_progress_files'[DgFileId(last_data')] IN
                IF DgIsData(last_data')
                THEN /\ a.name = None
                     /\ DOMAIN a.segments = {DgNumber(last_data')}
                ELSE /\ a.name = Some(DgName(last_data'))
                     /\ DOMAIN a.segments = {}
                     /\ a.max_segments = None]_vars

\* a completed FileId has a new File in progress, made by the latest packet
C11_Witness ==
    /\ result.kind = "Ok"
    /\ recv_count = 3
    /\ Len(final_files) = 1
    /\ final_files[1].file_id \in DOMAIN in_progress_files
    /\ final_files[1].file_id = DgFileId(last_data)

\* C12 as stated: once max_segments of a File is set, no later packet changes
\* its value.
C12_MaxSegmentsSetOnce ==
    [][\A id \in DOMAIN in_progress_files :
          IsSome(in_progress_files[id].max_segments)
            => After(id).max_segments = in_progress_files[id].max_segments
      ]_vars

\* C12 amended: once set, max_segments is never unset, and it changes only in
\* a call that reports to that File a data packet with is_last set, to that
\* packet's number.
C12_MaxSegmentsChangedOnlyByLast ==
    [][\A id \in DOMAIN in_progress_files :
          IsSome(in_progress_files[id].max_segments)
            => /\ IsSome(After(id).max_segments)
               /\ After(id).max_segments
                     # in_progress_files[id].max_segments
                  => /\ RoutedOk
                     /\ DgIsData(last_data')
                     /\ DgIsLast(last_data')
                     /\ DgFileId(last_data') = id
                     /\ After(id).max_segments
                          = Some(DgNumber(last_data'))]_vars

\* a data packet with is_last clear was reported to a File whose max_segments
\* is set
C12_Witness ==
    /\ result.kind = "Ok"
    /\ Len(last_data) = 5
    /\ DgIsData(last_data)
    /\ ~DgIsLast(last_data)
    /\ DgFileId(last_data) \in DOMAIN in_progress_files
    /\ IsSome(in_progress_files[DgFileId(last_data)].max_segments)
    /\ Unwrap(in_progress_files[DgFileId(last_data)].max_segments)
         # DgNumber(last_data)

\* C13 as stated: a File is appended to final_files only by a call that
\* reported a data packet, never by one that reported a header packet.
C13_DoneOnlyAfterDataPacket ==
    [][Len(final_files') > Len(final_files)
          => RoutedOk /\ DgIsData(last_data')]_vars

\* C13 amended: a File is appended to final_files only by a recv_packet call
\* that returned Ok, after a header or data packet of its own FileId; a header
\* packet completes the File whose segment count had already reached
\* max_segments + 1 and whose name was missing.
C13_DoneOnlyAfterOwnPacket ==
    [][Len(final_files') > Len(final_files)
          => /\ RoutedOk
             /\ \A i \in (Len(final_files) + 1)..Len(final_files') :
                  final_files'[i].file_id = DgFileId(last_data')
             /\ ~DgIsData(last_data')
                  => LET b == Before(DgFileId(last_data')) IN
                     /\ b.name = None
                     /\ b.max_segments # None
                     /\ Cardinality(DOMAIN b.segments)
                          = b.max_segments[1] + 1
                     /\ final_files'[Len(final_files')].name
                          = Some(DgName(last_data'))]_vars

\* the latest packet was a header and its File went to final_files
C13_Witness ==
    /\ result.kind = "Ok"
    /\ phase = "running"
    /\ Len(last_data) >= 3
    /\ ~DgIsData(last_data)
    /\ DgFileId(last_data) \notin DOMAIN in_progress_files
    /\ final_files # <<>>
    /\ final_files[Len(final_files)].file_id = DgFileId(last_data)

\* C14: a routed packet with FileId f leaves every other File in
\* in_progress_files as it was; in f's File a header changes only name, a
\* data packet changes only the segment at its packet_number and, when
\* is_last is set, max_segments (to that packet_number); with is_last clear
\* max_segments stays.
C14_PacketChangesOnlyItsFile ==
    [][RoutedOk =>
         LET d == last_data'
             f == DgFileId(d)
             b == Before(f)
             a == After(f)
         IN  /\ \A id \in DOMAIN in_progress_files \ {f} :
                  /\ id \in DOMAIN in_progress_files'
                  /\ in_progress_files'[id] = in_progress_files[id]
             /\ DOMAIN in_progress_files'
                  \subseteq DOMAIN in_progress_files \cup {f}
             /\ a.file_id = f
             /\ IF DgIsData(d)
                THEN /\ a.name = b.name
                     /\ DOMAIN a.segments
                          = DOMAIN b.segments \cup {DgNumber(d)}
                     /\ a.segments[DgNumber(d)] = DgPayload(d)
                     /\ \A k \in DOMAIN b.segments \ {DgNumber(d)} :
                          a.segments[k] = b.segments[k]
                     /\ a.max_segments =
                          IF DgIsLast(d) THEN Some(DgNumber(d))
                          ELSE b.max_segments
                ELSE /\ a.name = Some(DgName(d))
                     /\ a.segments = b.segments
                     /\ a.max_segments = b.max_segments]_vars

\* two Files in progress, both holding segments, the latest packet a data
\* packet for one of them
C14_Witness ==
    /\ result.kind = "Ok"
    /\ Len(last_data) = 5
    /\ DgIsData(last_data)
    /\ Cardinality(DOMAIN in_progress_files) = 2
    /\ \A id \in DOMAIN in_progress_files :
         DOMAIN in_progress_files[id].segments # {}
    /\ recv_count = 3

\* C16: a recv_packet call appends at most one File to final_files, the one
\* of the FileId of the packet it routed, so file_count never decreases and
\* grows by at most 1 per call, whatever order the HashMap is visited in.
C16_AtMostOneFileMovedPerCall ==
    [][/\ Len(final_files') \in {Len(final_files), Len(final_files) + 1}
       /\ Len(final_files') = Len(final_files) + 1
            => /\ recv_count' = recv_count + 1
               /\ DgFileId(last_data') \in DOMAIN in_progress_files
               /\ DgFileId(last_data') \notin DOMAIN in_progress_files'
               /\ DOMAIN in_progress_files'
                    = DOMAIN in_progress_files \ {DgFileId(last_data')}
               /\ final_files'[Len(final_files')].file_id
                    = DgFileId(last_data')]_vars

\* a data packet completed its File while another File stayed in progress
C16_Witness ==
    /\ result.kind = "Ok"
    /\ phase = "running"
    /\ Len(last_data) = 5
    /\ DgIsData(last_data)
    /\ final_files # <<>>
    /\ final_files[Len(final_files)].file_id = DgFileId(last_data)
    /\ DgFileId(last_data) \notin DOMAIN in_progress_files
    /\ DOMAIN in_progress_files # {}

----------------------------------------------------------------------------
(* Properties of final_files *)

\* C17: every File in final_files has a name, has max_segments set and holds
\* max_segments + 1 segments, and finalize_files never returns its no-name
\* error.
C17_FinalFilesNamedAndCounted ==
    /\ \A f \in FinalFiles :
         /\ f.name # None
         /\ f.max_segments # None
         /\ Cardinality(DOMAIN f.segments) = f.max_segments[1] + 1
    /\ result # Err("no name")

\* finalize_files went past the name check of two Files
C17_Witness ==
    /\ phase = "finalized"
    /\ Len(final_files) = 2
    /\ Len(sink) = 2

\* C18: a done File none of whose packet numbers exceeds max_segments holds
\* every number 0..=max_segments, and the segment count is the number of
\* distinct packet numbers reported, however often each was reported.
C18_DoneWithoutKeyAboveMaxIsDense ==
    /\ (is_done(file) /\ NoKeyAboveMax(file)) => AllPresent(file)
    /\ Cardinality(DOMAIN file.segments)
         = Cardinality({p.packet_number : p \in ReportedData})

\* a done File of at least two segments, one of them reported twice
C18_Witness ==
    /\ is_done(file)
    /\ NoKeyAboveMax(file)
    /\ Unwrap(file.max_segments) >= 1
    /\ Cardinality(ReportedData) > Cardinality(DOMAIN file.segments)

C20_NoOutputForRejectedFile ==
    (phase = "finalized" /\ result = Err("bad data at packet id"))
        => \A i \in DOMAIN final_files :
             ~AllPresent(final_files[i]) => Len(sink) < i

----------------------------------------------------------------------------
(* SpecMain: main.rs, display_progress_until_n_files then finalize_files,  *)
(* while the server sends the packets of well-formed files                 *)

\* the datagrams of one well-formed file: its header, and data packets
\* 0..=last of which only the one numbered last carries the is_last bit
FileDatagrams(id, last) ==
    {<<0, id, 116>>}
    \cup {<<IF k = last THEN 3 ELSE 1, id, 0, k, 104 + k>> : k \in 0..last}

\* the files of a session: pairwise distinct FileIds, each with the number
\* of its last packet
Sessions == UNION {[S -> 0..MaxLast] : S \in (SUBSET FileIds) \ {{}}}

StreamOf(session) ==
    UNION {FileDatagrams(id, session[id]) : id \in DOMAIN session}

AllStreamDatagrams == UNION {StreamOf(session) : session \in Sessions}

\* Client::file_count
file_count == Len(final_files)

\* the file_count argument of display_progress_until_n_files: the number of
\* files the server sends
n_files == Cardinality({d[2] : d \in stream})

InitMain ==
    /\ \E session \in Sessions : stream = StreamOf(session)
    /\ delivered = {}
    /\ ClientIdle
    /\ CodecIdle
    /\ FileIdle

\* one turn of the loop of display_progress_until_n_files: recv_packet on
\* the datagram d, `?` leaving the loop on an error; recv_count, the call
\* counter that bounds Spec, is not kept here; each intermediate value is
\* bound once, as the one element of a set
MainRecv(d) ==
    /\ phase = "running"
    /\ file_count < n_files
    /\ d \in stream
    /\ delivered' = delivered \cup {d}
    /\ last_data' = d
    /\ \E decoded \in {recv_decode(d)} :
         IF decoded.kind = "Ok"
         THEN /\ \E files \in {recv_report(in_progress_files,
                                           decoded.packet)} :
                   \E order \in Orderings(DoneIds(files)) :
                     \E moved \in {move_complete_files(files, final_files,
                                                       order)} :
                        /\ in_progress_files' = moved.in_progress
                        /\ final_files' = moved.final
              /\ result' = Ok(<<>>)
              /\ UNCHANGED phase
         ELSE /\ result' = decoded
              /\ phase' = IF decoded.kind = "Panic" THEN "panicked"
                          ELSE "failed"
              /\ UNCHANGED <<in_progress_files, final_files>>
    /\ UNCHANGED <<sink, recv_count, stream, codecVars, fileVars>>

\* d arrives for the first time
FirstRecv(d) == d \notin delivered /\ MainRecv(d)

\* d arrives again
AgainRecv(d) == d \in delivered /\ MainRecv(d)

\* runner after the loop has ended: finalize_files, every I/O call
\* succeeding
MainFinalize ==
    /\ phase = "running"
    /\ ~(file_count < n_files)
    /\ LET fin == finalize_files(final_files, 0)
       IN  /\ result' = fin.res
           /\ sink' = fin.sink
    /\ phase' = "finalized"
    /\ UNCHANGED <<in_progress_files, final_files, last_data, recv_count,
                   codecVars, fileVars, mainVars>>

RecvNew == \E d \in AllStreamDatagrams : FirstRecv(d)

RecvAgain == \E d \in AllStreamDatagrams : AgainRecv(d)

NextMain ==
    \/ RecvNew
    \/ RecvAgain
    \/ MainFinalize

\* while the loop is still reading and a packet of the session has not
\* arrived yet, one such packet arrives in the end, so that every packet
\* arrives at least once; and runner goes on to finalize_files when the
\* loop ends
SpecMain ==
    /\ InitMain
    /\ [][NextMain]_vars
    /\ WF_vars(RecvNew)
    /\ WF_vars(MainFinalize)

----------------------------------------------------------------------------
(* Properties of the receive loop *)

\* the loop has ended with n_files files and finalize_files returned Ok
FinalizedOk ==
    /\ phase = "finalized"
    /\ result = Ok(<<>>)
    /\ file_count = n_files

\* the step header-then-data of the single-packet case: the Client holds
\* only the File made by the header of id, and its is_last packet 0 arrives
SinglePacketStep(id) ==
    /\ final_files = <<>>
    /\ DOMAIN in_progress_files = {id}
    /\ in_progress_files[id] =
           report_header_packet(File_new(id), HeaderPacket(id, <<116>>))
    /\ last_data = <<0, id, 116>>
    /\ last_data' = <<3, id, 0, 0, 104>>

====
